---- MODULE Spec2Model ----
(***************************************************************************)
(* Model of backend/main.py: the bioreactor replay/control engine.         *)
(*                                                                         *)
(* Numbers are fixed-point integers (the code uses Python floats):         *)
(*   Temperature of a row        milli-degrees   (37.004 -> 37004)         *)
(*   pH of a row                 milli-pH        (7.0    -> 7000)          *)
(*   Dissolved_Oxygen of a row   tenths of a %   (30.0   -> 300)           *)
(*   manual_rpm                  whole RPM                                 *)
(*   values rounded to 2 places  hundredths      (37.0   -> 3700)          *)
(*   health_score                milli-points    (100    -> 100000)        *)
(* round(x, n) is modelled as round-half-to-even on the decimal value.     *)
(* The row columns Impeller_Speed and Yield are passed through to the      *)
(* packet untouched by any computation and are left out of the rows.       *)
(***************************************************************************)
EXTENDS Integers, Sequences, FiniteSets

\* ------------------------------------------------------------ bounds
MaxRows == 2
MaxTicks == 6
MaxCmds == 2
\* the line-by-line specification (SpecSteps) explores fewer requests
StepMaxTicks == 2
StepMaxCmds == 1
\* the long-run specification (SpecPilot): enough ticks to climb from 300 to 600
PilotMaxTicks == 62
PilotMaxCmds == 2
MaxPending == 2

\* ------------------------------------------------------------ inputs
\* Rows a Source may hold: the base row, a row with more than two decimals
\* and low oxygen, and a far-out-of-spec row.
Rows ==
  { [Temperature |-> 37000, pH |-> 7000, Dissolved_Oxygen |-> 300],
    [Temperature |-> 37004, pH |-> 6950, Dissolved_Oxygen |-> 281],
    [Temperature |-> 50000, pH |-> 4000, Dissolved_Oxygen |-> 100] }

RECURSIVE SeqsUpTo(_, _)
SeqsUpTo(S, n) ==
  IF n = 0 THEN { <<>> }
  ELSE LET shorter == SeqsUpTo(S, n - 1)
       IN shorter \cup { Append(s, x) : s \in { t \in shorter : Len(t) = n - 1 }, x \in S }

Sources == SeqsUpTo(Rows, MaxRows)

\* JSON bodies of the set-speed command: "rpm" absent, null, a number, or a string.
RpmNumbers == { -100, 0, 700 }
RpmStrings == { <<"1", "5", "0">>, <<"a", "b", "c">> }
Bodies ==
  { [has |-> FALSE, kind |-> "absent", num |-> 0, str |-> <<>>],
    [has |-> TRUE, kind |-> "null", num |-> 0, str |-> <<>>] }
  \cup { [has |-> TRUE, kind |-> "number", num |-> v, str |-> <<>>] : v \in RpmNumbers }
  \cup { [has |-> TRUE, kind |-> "string", num |-> 0, str |-> s] : s \in RpmStrings }

\* ------------------------------------------------------------ arithmetic
Min(a, b) == IF a < b THEN a ELSE b
Max(a, b) == IF a > b THEN a ELSE b
Abs(a) == IF a < 0 THEN 0 - a ELSE a

\* round(): x/d to the nearest integer, ties to the even one.
RoundDiv(x, d) ==
  LET q == x \div d
      r == x % d
  IN IF 2 * r < d THEN q
     ELSE IF 2 * r > d THEN q + 1
     ELSE IF q % 2 = 0 THEN q ELSE q + 1

\* The integer nearest to sqrt(x / 3), by bisection: the largest n with
\* n = 0 or 3 * (2n - 1)^2 <= 4x.
RECURSIVE Bisect(_, _, _)
Bisect(x, lo, hi) ==
  IF lo = hi THEN lo
  ELSE LET mid == (lo + hi + 1) \div 2
       IN IF 3 * (2 * mid - 1) * (2 * mid - 1) <= 4 * x
          THEN Bisect(x, mid, hi)
          ELSE Bisect(x, lo, mid - 1)

RoundSqrtThird(x) == Bisect(x, 0, 8192)

\* float(): of a number, of a string of decimal digits; anything else raises.
Digit(c) ==
  CASE c = "0" -> 0 [] c = "1" -> 1 [] c = "2" -> 2 [] c = "3" -> 3 [] c = "4" -> 4
    [] c = "5" -> 5 [] c = "6" -> 6 [] c = "7" -> 7 [] c = "8" -> 8 [] c = "9" -> 9
    [] OTHER -> -1

RECURSIVE DigitsValue(_)
DigitsValue(s) ==
  IF s = <<>> THEN 0
  ELSE 10 * DigitsValue(SubSeq(s, 1, Len(s) - 1)) + Digit(s[Len(s)])

FloatRaisesNever(v) == FALSE
FloatRaises(v) ==
  \/ v.kind = "null"
  \/ v.kind = "string" /\ (v.str = <<>> \/ \E i \in 1..Len(v.str) : Digit(v.str[i]) < 0)

FloatValueClamped(v) ==
  LET x == IF v.kind = "string" THEN DigitsValue(v.str) ELSE v.num
  IN IF x > 600 THEN 600 ELSE IF x < 0 THEN 0 ELSE x
FloatValue(v) == IF v.kind = "string" THEN DigitsValue(v.str) ELSE v.num

\* f"{n:03d}": the decimal digits of n, zero-padded to at least three.
RECURSIVE Digits(_)
Digits(n) == IF n < 10 THEN <<n>> ELSE Append(Digits(n \div 10), n % 10)

Format03d(n) ==
  LET d == Digits(n)
  IN IF Len(d) >= 3 THEN d ELSE [i \in 1..(3 - Len(d)) |-> 0] \o d

\* ------------------------------------------------------------ state
VARIABLES
  df,               \* the loaded CSV: a sequence of rows (empty if the load failed)
  current_index,    \* replay cursor, 0-based
  batch_count,      \* current batch run
  temp_buffer,      \* last simulated temperatures, oldest first
  sim_adjustments,  \* [manual_rpm, manual_anomaly]
  resp,             \* the response to the last request answered
  op,               \* the last request answered
  row_index,        \* the cursor position the last tick read its row from
  nok,              \* ticks that returned a success packet
  nticks,           \* tick requests received
  ncmds,            \* control requests received
  fault_state,      \* "never", "set" or "cleared": the last fault command, if any
  pending,          \* requests received whose handler the event loop has not run yet
  frame,            \* locals and position of the get_process_data call in progress
  snap              \* the shared state as it was when that call began

shared == <<df, current_index, batch_count, temp_buffer, sim_adjustments>>
loop == <<pending, frame, snap>>
vars == <<df, current_index, batch_count, temp_buffer, sim_adjustments,
          resp, op, row_index, nok, nticks, ncmds, fault_state, pending, frame, snap>>

\* A response with every field blank; each handler fills in its own.
Blank ==
  [ status |-> "none", error |-> "", message |-> "", http |-> 200,
    batch_id |-> <<>>, Temperature |-> 0, Impeller_Speed |-> 0,
    Dissolved_Oxygen |-> 0, pH |-> 0, health_score |-> 0,
    is_anomaly |-> FALSE, auto_pilot_active |-> FALSE,
    digital_twin_temp |-> <<>>, new_rpm |-> <<>>, current_state |-> FALSE ]

\* An exception escaping a handler: the framework answers 500.
ServerError == [Blank EXCEPT !.status = "Internal Server Error", !.http = 500]

NoRow == [Temperature |-> 0, pH |-> 0, Dissolved_Oxygen |-> 0]
IdleFrame ==
  [ pc |-> "idle", row |-> NoRow, user_rpm |-> 0, simulated_temp |-> 0,
    simulated_do2 |-> 0, auto_pilot_active |-> FALSE, predicted_temp |-> <<>>,
    health_score |-> 0, is_anomaly |-> FALSE ]

Snapshot ==
  [ current_index |-> current_index, batch_count |-> batch_count,
    temp_buffer |-> temp_buffer, sim_adjustments |-> sim_adjustments ]

Init ==
  /\ df \in Sources
  /\ current_index = 0
  /\ batch_count = 1
  /\ temp_buffer = <<>>
  /\ sim_adjustments = [manual_rpm |-> 300, manual_anomaly |-> FALSE]
  /\ resp = Blank
  /\ op = "start"
  /\ row_index = 0
  /\ nok = 0
  /\ nticks = 0
  /\ ncmds = 0
  /\ fault_state = "never"
  /\ pending = <<>>
  /\ frame = IdleFrame
  /\ snap = Snapshot

\* ------------------------------------------------------------ get_process_data
\* 1. cursor
NextIndex(i, n) == IF i + 1 >= n THEN 0 ELSE i + 1
NextBatchCountLate(i, n, b) == IF i + 1 > n THEN b + 1 ELSE b
NextBatchCount(i, n, b) == IF i + 1 >= n THEN b + 1 ELSE b

\* 2. biophysical coupling
RpmHeatBiasFrom250(rpm) == rpm - 250
RpmHeatBias(rpm) == rpm - 300
SimulatedTemp(row, rpm) == RoundDiv(row.Temperature + RpmHeatBias(rpm), 10)

\* (user_rpm / 300.0) ** 0.5 of a negative speed is a complex number, and
\* round() of a complex number raises TypeError.
Do2Raises(rpm, anomaly) == ~anomaly /\ rpm < 0
SimulatedDo2Agitated(row, rpm, anomaly) ==
  RoundSqrtThird(rpm * row.Dissolved_Oxygen * row.Dissolved_Oxygen)
SimulatedDo2(row, rpm, anomaly) ==
  IF anomaly THEN RoundDiv(row.Dissolved_Oxygen, 2)
  ELSE RoundSqrtThird(rpm * row.Dissolved_Oxygen * row.Dissolved_Oxygen)

\* automated corrective action
AutoPilotFiresInclusive(do2, anomaly) == do2 <= 3000 /\ ~anomaly
AutoPilotFires(do2, anomaly) == do2 < 3000 /\ ~anomaly
AutoPilotRpmNoCeiling(rpm) == rpm + 5
AutoPilotRpm(rpm) == Min(600, rpm + 5)

\* 3. digital twin
PushBufferCheckFirst(buf, t) ==
  IF Len(buf) > 5 THEN Append(Tail(buf), t) ELSE Append(buf, t)
PushBufferDropsNewest(buf, t) ==
  LET b == Append(buf, t)
  IN IF Len(b) > 5 THEN SubSeq(b, 1, 5) ELSE b
PushBuffer(buf, t) ==
  LET b == Append(buf, t)
  IN IF Len(b) > 5 THEN Tail(b) ELSE b
PredictedTempEarly(buf) ==
  IF Len(buf) >= 4
  THEN << RoundDiv(2 * buf[Len(buf)] + (buf[Len(buf)] - buf[1]), 2) >>
  ELSE <<>>
PredictedTemp(buf) ==
  IF Len(buf) = 5
  THEN << RoundDiv(2 * buf[5] + (buf[5] - buf[1]), 2) >>
  ELSE <<>>

\* 4. deviation and health score
HealthScoreNoFloor(simulated_temp, row, anomaly) ==
  Min(100000, 100000 - Abs(simulated_temp - 3700) * 150 - Abs(row.pH - 7000) * 40
                     - (IF anomaly THEN 50000 ELSE 0))
HealthScore(simulated_temp, row, anomaly) ==
  LET temp_deviation == Abs(simulated_temp - 3700)
      ph_deviation == Abs(row.pH - 7000)
      do2_penalty == IF anomaly THEN 50000 ELSE 0
  IN Max(0, Min(100000, 100000 - temp_deviation * 150 - ph_deviation * 40 - do2_penalty))
IsAnomaly(health_score, anomaly) == health_score < 70000 \/ anomaly

\* the counter the packet's batch_id is formatted from: the global, read at
\* packaging time, after the cursor update
LabelCountStale(before, after) == before
LabelCount(before, after) == after
BatchId(n) == [prefix |-> "B2026-", digits |-> Format03d(n)]

\* the "data" packet of a successful tick
Packet(row, count, simulated_temp, rpm, simulated_do2, health_score, is_anomaly, auto_pilot_active, predicted_temp) ==
  [Blank EXCEPT
     !.status = "success",
     !.batch_id = BatchId(count),
     !.Temperature = simulated_temp,
     !.Impeller_Speed = 10 * rpm,
     !.Dissolved_Oxygen = simulated_do2,
     !.pH = RoundDiv(row.pH, 10),
     !.health_score = RoundDiv(health_score, 100),
     !.is_anomaly = is_anomaly,
     !.auto_pilot_active = auto_pilot_active,
     !.digital_twin_temp = predicted_temp]

TickEmptyAfterCursor ==
  /\ Len(df) = 0
  /\ resp' = [Blank EXCEPT !.error = "No data available"]
  /\ current_index' = 0
  /\ batch_count' = batch_count + 1
  /\ UNCHANGED <<temp_buffer, sim_adjustments, row_index, nok>>

\* if df.empty: return {"error": ...}
TickEmpty ==
  /\ Len(df) = 0
  /\ resp' = [Blank EXCEPT !.error = "No data available"]
  /\ UNCHANGED <<current_index, batch_count, temp_buffer, sim_adjustments, row_index, nok>>

TickRun ==
  /\ Len(df) > 0
  /\ LET row == df[current_index + 1]
         index1 == NextIndex(current_index, Len(df))
         count1 == NextBatchCount(current_index, Len(df), batch_count)
         user_rpm == sim_adjustments.manual_rpm
         anomaly == sim_adjustments.manual_anomaly
         simulated_temp == SimulatedTemp(row, user_rpm)
     IN /\ row_index' = current_index
        /\ current_index' = index1
        /\ batch_count' = count1
        /\ IF Do2Raises(user_rpm, anomaly)
           THEN /\ resp' = ServerError
                /\ UNCHANGED <<temp_buffer, sim_adjustments, nok>>
           ELSE LET simulated_do2 == SimulatedDo2(row, user_rpm, anomaly)
                    auto_pilot_active == AutoPilotFires(simulated_do2, anomaly)
                    rpm1 == IF auto_pilot_active THEN AutoPilotRpm(user_rpm) ELSE user_rpm
                    buffer1 == PushBuffer(temp_buffer, simulated_temp)
                    health_score == HealthScore(simulated_temp, row, anomaly)
                IN /\ sim_adjustments' = [sim_adjustments EXCEPT !.manual_rpm = rpm1]
                   /\ temp_buffer' = buffer1
                   /\ nok' = nok + 1
                   /\ resp' = Packet(row, LabelCount(batch_count, count1), simulated_temp,
                                     rpm1, simulated_do2, health_score,
                                     IsAnomaly(health_score, anomaly), auto_pilot_active,
                                     PredictedTemp(buffer1))

\* The handler as one step: it is a coroutine without an await, so the event
\* loop runs it from its first line to its return (SpecSteps below).
GetProcessData ==
  /\ nticks < MaxTicks
  /\ (TickEmpty \/ TickRun)
  /\ op' = "tick"
  /\ nticks' = nticks + 1
  /\ UNCHANGED <<df, ncmds, fault_state, pending, frame, snap>>

\* ------------------------------------------------------------ control commands
\* the effect of each handler on the shared state and its response
DoUpdateSimulation(data) ==
  /\ LET v == IF data.has THEN data
              ELSE [has |-> TRUE, kind |-> "number", num |-> 300, str |-> <<>>]
     IN IF FloatRaises(v)
        THEN /\ resp' = ServerError
             /\ UNCHANGED sim_adjustments
        ELSE /\ sim_adjustments' = [sim_adjustments EXCEPT !.manual_rpm = FloatValue(v)]
             /\ resp' = [Blank EXCEPT !.status = "Control Signal Received",
                                      !.new_rpm = << FloatValue(v) >>]
  /\ op' = "control"
  /\ UNCHANGED <<df, current_index, batch_count, temp_buffer, row_index, nok, fault_state>>

DoTriggerAnomalyRestartsTwin ==
  /\ sim_adjustments' = [sim_adjustments EXCEPT !.manual_anomaly = TRUE]
  /\ resp' = [Blank EXCEPT !.status = "success", !.message = "O2 Failure Injected",
                           !.current_state = TRUE]
  /\ op' = "trigger"
  /\ fault_state' = "set"
  /\ temp_buffer' = <<>>
  /\ UNCHANGED <<df, current_index, batch_count, row_index, nok>>

DoTriggerAnomaly ==
  /\ sim_adjustments' = [sim_adjustments EXCEPT !.manual_anomaly = TRUE]
  /\ resp' = [Blank EXCEPT !.status = "success", !.message = "O2 Failure Injected",
                           !.current_state = TRUE]
  /\ op' = "trigger"
  /\ fault_state' = "set"
  /\ UNCHANGED <<df, current_index, batch_count, temp_buffer, row_index, nok>>

DoResetAnomalyKeepsFlag ==
  /\ UNCHANGED sim_adjustments
  /\ resp' = [Blank EXCEPT !.status = "success",
                           !.message = "Anomaly cleared. System recovering..."]
  /\ op' = "reset"
  /\ fault_state' = "cleared"
  /\ UNCHANGED <<df, current_index, batch_count, temp_buffer, row_index, nok>>

DoResetAnomaly ==
  /\ sim_adjustments' = [sim_adjustments EXCEPT !.manual_anomaly = FALSE]
  /\ resp' = [Blank EXCEPT !.status = "success",
                           !.message = "Anomaly cleared. System recovering..."]
  /\ op' = "reset"
  /\ fault_state' = "cleared"
  /\ UNCHANGED <<df, current_index, batch_count, temp_buffer, row_index, nok>>

UpdateSimulation(data) ==
  /\ ncmds < MaxCmds
  /\ DoUpdateSimulation(data)
  /\ ncmds' = ncmds + 1
  /\ UNCHANGED <<nticks, pending, frame, snap>>

TriggerAnomaly ==
  /\ ncmds < MaxCmds
  /\ DoTriggerAnomaly
  /\ ncmds' = ncmds + 1
  /\ UNCHANGED <<nticks, pending, frame, snap>>

ResetAnomaly ==
  /\ ncmds < MaxCmds
  /\ DoResetAnomaly
  /\ ncmds' = ncmds + 1
  /\ UNCHANGED <<nticks, pending, frame, snap>>

Next ==
  \/ GetProcessData
  \/ \E data \in Bodies : UpdateSimulation(data)
  \/ TriggerAnomaly
  \/ ResetAnomaly

Spec == Init /\ [][Next]_vars

\* ------------------------------------------------------------ evaluator inputs
\* A second specification for the per-tick computations: one-row Sources over a
\* grid of row values, and the Control State any operator commands left behind.
EvalTemps == { 5000 * k : k \in 0..20 } \cup { 30334, 36995, 37004, 43666 }
EvalPHs == { 1000 * k : k \in 0..14 } \cup { 6250, 7750 }
EvalRows ==
  { [Temperature |-> t, pH |-> p, Dissolved_Oxygen |-> d] :
      t \in EvalTemps, p \in EvalPHs, d \in { 0, 300 } }
EvalRpms == { -100, 0, 300, 600, 1000 }

InitEval ==
  /\ df \in { <<>> } \cup { <<r>> : r \in EvalRows }
  /\ current_index = 0
  /\ batch_count = 1
  /\ temp_buffer = <<>>
  /\ sim_adjustments \in [manual_rpm : EvalRpms, manual_anomaly : BOOLEAN]
  /\ resp = Blank
  /\ op = "start"
  /\ row_index = 0
  /\ nok = 0
  /\ nticks = 0
  /\ ncmds = 0
  /\ fault_state = (IF sim_adjustments.manual_anomaly THEN "set" ELSE "never")
  /\ pending = <<>>
  /\ frame = IdleFrame
  /\ snap = Snapshot

NextEval == GetProcessData

SpecEval == InitEval /\ [][NextEval]_vars

\* ------------------------------------------------------------ long runs
\* A third specification: the operator never sends set-speed, only fault
\* commands, and the client polls long enough for the auto pilot to reach its
\* ceiling. One-row Sources, so that each run holds one oxygen level.
PilotSources == { <<>> } \cup { <<r>> : r \in Rows }

InitPilot ==
  /\ df \in PilotSources
  /\ current_index = 0
  /\ batch_count = 1
  /\ temp_buffer = <<>>
  /\ sim_adjustments = [manual_rpm |-> 300, manual_anomaly |-> FALSE]
  /\ resp = Blank
  /\ op = "start"
  /\ row_index = 0
  /\ nok = 0
  /\ nticks = 0
  /\ ncmds = 0
  /\ fault_state = "never"
  /\ pending = <<>>
  /\ frame = IdleFrame
  /\ snap = Snapshot

PilotTick ==
  /\ nticks < PilotMaxTicks
  /\ (TickEmpty \/ TickRun)
  /\ op' = "tick"
  /\ nticks' = nticks + 1
  /\ UNCHANGED <<df, ncmds, fault_state, pending, frame, snap>>

PilotTrigger ==
  /\ ncmds < PilotMaxCmds
  /\ DoTriggerAnomaly
  /\ ncmds' = ncmds + 1
  /\ UNCHANGED <<nticks, pending, frame, snap>>

PilotReset ==
  /\ ncmds < PilotMaxCmds
  /\ DoResetAnomaly
  /\ ncmds' = ncmds + 1
  /\ UNCHANGED <<nticks, pending, frame, snap>>

NextPilot == PilotTick \/ PilotTrigger \/ PilotReset

SpecPilot == InitPilot /\ [][NextPilot]_vars

\* ------------------------------------------------------------ the event loop
\* Line-by-line execution of get_process_data under the server's event loop.
\* Requests arrive at any time and wait in `pending`; the loop starts a handler
\* only when no handler is executing, and a handler gives the loop back only at
\* an await or at its return. No handler of main.py contains an await.
Requests ==
  { [kind |-> "tick", data |-> [has |-> FALSE, kind |-> "absent", num |-> 0, str |-> <<>>]],
    [kind |-> "trigger", data |-> [has |-> FALSE, kind |-> "absent", num |-> 0, str |-> <<>>]],
    [kind |-> "reset", data |-> [has |-> FALSE, kind |-> "absent", num |-> 0, str |-> <<>>]] }
  \cup { [kind |-> "control", data |-> d] : d \in Bodies }

Remove(q, i) == SubSeq(q, 1, i - 1) \o SubSeq(q, i + 1, Len(q))

LoopFreeAlways == TRUE
LoopFree == frame.pc = "idle"

Arrive(req) ==
  /\ Len(pending) < MaxPending
  /\ IF req.kind = "tick"
     THEN nticks < StepMaxTicks /\ nticks' = nticks + 1 /\ UNCHANGED ncmds
     ELSE ncmds < StepMaxCmds /\ ncmds' = ncmds + 1 /\ UNCHANGED nticks
  /\ pending' = Append(pending, req)
  /\ UNCHANGED <<df, current_index, batch_count, temp_buffer, sim_adjustments,
                 resp, op, row_index, nok, fault_state, frame, snap>>

RunUpdateSimulation ==
  /\ LoopFree
  /\ \E i \in 1..Len(pending) :
       /\ pending[i].kind = "control"
       /\ DoUpdateSimulation(pending[i].data)
       /\ pending' = Remove(pending, i)
  /\ UNCHANGED <<nticks, ncmds, frame, snap>>

RunTriggerAnomaly ==
  /\ LoopFree
  /\ \E i \in 1..Len(pending) :
       /\ pending[i].kind = "trigger"
       /\ pending' = Remove(pending, i)
  /\ DoTriggerAnomaly
  /\ UNCHANGED <<nticks, ncmds, frame, snap>>

RunResetAnomaly ==
  /\ LoopFree
  /\ \E i \in 1..Len(pending) :
       /\ pending[i].kind = "reset"
       /\ pending' = Remove(pending, i)
  /\ DoResetAnomaly
  /\ UNCHANGED <<nticks, ncmds, frame, snap>>

StartTick ==
  /\ LoopFree
  /\ \E i \in 1..Len(pending) :
       /\ pending[i].kind = "tick"
       /\ pending' = Remove(pending, i)
  /\ frame' = [IdleFrame EXCEPT !.pc = "l80"]
  /\ snap' = Snapshot
  /\ UNCHANGED <<df, current_index, batch_count, temp_buffer, sim_adjustments,
                 resp, op, row_index, nok, nticks, ncmds, fault_state>>

\* what a line of the handler leaves alone besides what it names
Quiet == UNCHANGED <<df, nticks, ncmds, fault_state, pending, snap>>

L80 ==
  /\ frame.pc = "l80"
  /\ IF Len(df) = 0
     THEN /\ resp' = [Blank EXCEPT !.error = "No data available"]
          /\ op' = "tick"
          /\ frame' = IdleFrame
     ELSE /\ frame' = [frame EXCEPT !.pc = "l84"]
          /\ UNCHANGED <<resp, op>>
  /\ Quiet
  /\ UNCHANGED <<current_index, batch_count, temp_buffer, sim_adjustments, row_index, nok>>

L84 ==
  /\ frame.pc = "l84"
  /\ frame' = [frame EXCEPT !.row = df[current_index + 1], !.pc = "l88"]
  /\ row_index' = current_index
  /\ Quiet
  /\ UNCHANGED <<current_index, batch_count, temp_buffer, sim_adjustments, resp, op, nok>>

L88 ==
  /\ frame.pc = "l88"
  /\ current_index' = NextIndex(current_index, Len(df))
  /\ batch_count' = NextBatchCount(current_index, Len(df), batch_count)
  /\ frame' = [frame EXCEPT !.pc = "l96"]
  /\ Quiet
  /\ UNCHANGED <<temp_buffer, sim_adjustments, resp, op, row_index, nok>>

L96 ==
  /\ frame.pc = "l96"
  /\ frame' = [frame EXCEPT !.user_rpm = sim_adjustments.manual_rpm, !.pc = "l101"]
  /\ Quiet
  /\ UNCHANGED <<current_index, batch_count, temp_buffer, sim_adjustments,
                 resp, op, row_index, nok>>

L101 ==
  /\ frame.pc = "l101"
  /\ frame' = [frame EXCEPT !.simulated_temp = SimulatedTemp(frame.row, frame.user_rpm),
                            !.pc = "l105"]
  /\ Quiet
  /\ UNCHANGED <<current_index, batch_count, temp_buffer, sim_adjustments,
                 resp, op, row_index, nok>>

L105 ==
  /\ frame.pc = "l105"
  /\ IF Do2Raises(frame.user_rpm, sim_adjustments.manual_anomaly)
     THEN /\ resp' = ServerError
          /\ op' = "tick"
          /\ frame' = IdleFrame
     ELSE /\ frame' = [frame EXCEPT
                         !.simulated_do2 = SimulatedDo2(frame.row, frame.user_rpm,
                                                        sim_adjustments.manual_anomaly),
                         !.pc = "l112"]
          /\ UNCHANGED <<resp, op>>
  /\ Quiet
  /\ UNCHANGED <<current_index, batch_count, temp_buffer, sim_adjustments, row_index, nok>>

L112 ==
  /\ frame.pc = "l112"
  /\ IF AutoPilotFires(frame.simulated_do2, sim_adjustments.manual_anomaly)
     THEN /\ sim_adjustments' =
               [sim_adjustments EXCEPT !.manual_rpm = AutoPilotRpm(sim_adjustments.manual_rpm)]
          /\ frame' = [frame EXCEPT !.auto_pilot_active = TRUE, !.pc = "l118"]
     ELSE /\ UNCHANGED sim_adjustments
          /\ frame' = [frame EXCEPT !.auto_pilot_active = FALSE, !.pc = "l118"]
  /\ Quiet
  /\ UNCHANGED <<current_index, batch_count, temp_buffer, resp, op, row_index, nok>>

L118 ==
  /\ frame.pc = "l118"
  /\ temp_buffer' = PushBuffer(temp_buffer, frame.simulated_temp)
  /\ frame' = [frame EXCEPT !.pc = "l122"]
  /\ Quiet
  /\ UNCHANGED <<current_index, batch_count, sim_adjustments, resp, op, row_index, nok>>

L122 ==
  /\ frame.pc = "l122"
  /\ frame' = [frame EXCEPT !.predicted_temp = PredictedTemp(temp_buffer), !.pc = "l128"]
  /\ Quiet
  /\ UNCHANGED <<current_index, batch_count, temp_buffer, sim_adjustments,
                 resp, op, row_index, nok>>

L128AfterCorrection ==
  /\ frame.pc = "l128"
  /\ frame' = [frame EXCEPT
                 !.health_score =
                    HealthScore(SimulatedTemp(frame.row, sim_adjustments.manual_rpm),
                                frame.row, sim_adjustments.manual_anomaly),
                 !.pc = "l137"]
  /\ Quiet
  /\ UNCHANGED <<current_index, batch_count, temp_buffer, sim_adjustments,
                 resp, op, row_index, nok>>

L128 ==
  /\ frame.pc = "l128"
  /\ frame' = [frame EXCEPT
                 !.health_score = HealthScore(frame.simulated_temp, frame.row,
                                              sim_adjustments.manual_anomaly),
                 !.pc = "l137"]
  /\ Quiet
  /\ UNCHANGED <<current_index, batch_count, temp_buffer, sim_adjustments,
                 resp, op, row_index, nok>>

L137 ==
  /\ frame.pc = "l137"
  /\ frame' = [frame EXCEPT
                 !.is_anomaly = IsAnomaly(frame.health_score, sim_adjustments.manual_anomaly),
                 !.pc = "l141"]
  /\ Quiet
  /\ UNCHANGED <<current_index, batch_count, temp_buffer, sim_adjustments,
                 resp, op, row_index, nok>>

L141 ==
  /\ frame.pc = "l141"
  /\ resp' = Packet(frame.row, LabelCount(snap.batch_count, batch_count),
                    frame.simulated_temp, sim_adjustments.manual_rpm, frame.simulated_do2,
                    frame.health_score, frame.is_anomaly, frame.auto_pilot_active,
                    frame.predicted_temp)
  /\ op' = "tick"
  /\ nok' = nok + 1
  /\ frame' = IdleFrame
  /\ Quiet
  /\ UNCHANGED <<current_index, batch_count, temp_buffer, sim_adjustments, row_index>>

NextSteps ==
  \/ \E req \in Requests : Arrive(req)
  \/ RunUpdateSimulation
  \/ RunTriggerAnomaly
  \/ RunResetAnomaly
  \/ StartTick
  \/ L80 \/ L84 \/ L88 \/ L96 \/ L101 \/ L105 \/ L112 \/ L118 \/ L122 \/ L128 \/ L137 \/ L141

SpecSteps == Init /\ [][NextSteps]_vars

\* ------------------------------------------------------------ properties
IsTick == nticks' # nticks
Served == op = "tick" /\ resp.status = "success"

\* C1: with a non-empty Source of length N the cursor stays in 0..N-1, and the
\* k-th successful tick serves row (k-1) mod N.
C1_CursorServesRow ==
  Len(df) > 0 =>
    /\ current_index \in 0..(Len(df) - 1)
    /\ Served => row_index = (nok - 1) % Len(df)

\* C2: batch_count starts at 1 and changes only by +1, in the tick that takes
\* the row at index N-1; after k ticks on a Source of N rows it is 1 + k div N.
C2_BatchCount ==
  /\ batch_count = 1
  /\ [][ /\ batch_count' =
              IF IsTick /\ Len(df) > 0 /\ current_index = Len(df) - 1
              THEN batch_count + 1 ELSE batch_count
         /\ Len(df) > 0 => batch_count' = 1 + (nticks' \div Len(df)) ]_vars

C2_Witness == Len(df) = 2 /\ batch_count = 3 /\ ncmds > 0 /\ op = "tick"

\* C3: the packet's batch identifier is formatted from batch_count after the
\* cursor update of the same tick: the current batch for rows 0..N-2, the next
\* batch for row N-1 (with N = 1, always one more than the count before the tick).
C3_EarlyLabel ==
  [][ (IsTick /\ resp'.status = "success") =>
        /\ resp'.batch_id =
             [prefix |-> "B2026-",
              digits |-> Format03d(IF current_index = Len(df) - 1
                                   THEN batch_count + 1 ELSE batch_count)]
        /\ Len(df) = 1 => resp'.batch_id.digits = Format03d(nticks' + 1) ]_vars

C3_Witness ==
  /\ Served /\ Len(df) = 2 /\ row_index = 1
  /\ resp.batch_id.digits = <<0, 0, 2>> /\ batch_count = 2

\* C4: a tick whose simulated oxygenation is below 30.0 with no fault raises
\* manual_rpm to min(600, s + 5) and reports the auto pilot active; any other
\* tick leaves manual_rpm alone and reports it inactive.
C4_AutoPilot ==
  [][ IsTick =>
        LET s == sim_adjustments.manual_rpm
        IN IF resp'.status = "success"
           THEN IF resp'.Dissolved_Oxygen < 3000 /\ ~sim_adjustments.manual_anomaly
                THEN /\ resp'.auto_pilot_active
                     /\ sim_adjustments'.manual_rpm = (IF s + 5 < 600 THEN s + 5 ELSE 600)
                ELSE /\ ~resp'.auto_pilot_active
                     /\ sim_adjustments'.manual_rpm = s
           ELSE sim_adjustments'.manual_rpm = s ]_vars

C4_Witness ==
  /\ Served /\ resp.Dissolved_Oxygen = 3000 /\ ~resp.auto_pilot_active
  /\ ~sim_adjustments.manual_anomaly /\ sim_adjustments.manual_rpm = 300

\* C5: no tick lowers manual_rpm, whatever speed the operator has set, and a
\* tick raises it to at most 600.
C5_NeverLowered ==
  [][ IsTick =>
        /\ sim_adjustments'.manual_rpm >= sim_adjustments.manual_rpm
        /\ sim_adjustments'.manual_rpm > sim_adjustments.manual_rpm
             => sim_adjustments'.manual_rpm <= 600 ]_vars

\* C6: with an empty Source every tick answers with an error and leaves the
\* cursor, the batch count, the twin buffer and the control state as they were.
C6_EmptySource ==
  [][ (IsTick /\ Len(df) = 0) =>
        /\ resp'.error # "" /\ resp'.status # "success"
        /\ UNCHANGED <<current_index, batch_count, temp_buffer, sim_adjustments>> ]_vars

C6_Witness ==
  /\ Len(df) = 0 /\ op = "tick" /\ resp.error = "No data available"
  /\ sim_adjustments.manual_rpm = 700 /\ sim_adjustments.manual_anomaly

\* C8: the prediction is absent on successful ticks 1..4 and present on every
\* successful tick from the 5th on.
C8_PredictionFromFifth ==
  Served => ((resp.digital_twin_temp = <<>>) <=> (nok <= 4))

C8_Witness ==
  /\ Served /\ nok = 6 /\ resp.digital_twin_temp # <<>>
  /\ ncmds > 0 /\ batch_count > 1

\* C9: between requests the twin buffer never holds more than 5 samples.
C9_BufferBound == Len(temp_buffer) <= 5

C9_Witness == Len(temp_buffer) = 5 /\ nok >= 6 /\ ncmds > 0

\* C7: while a tick is in progress nothing but the tick's own lines changes the
\* cursor, the batch count, the twin buffer or the control state; every read of
\* manual_rpm and manual_anomaly sees the value held when the tick began (or the
\* tick's own correction); and the tick ends in exactly the state and packet
\* that its lines produce, run back to back, from the state it began in.
C7_TickAtomic ==
  [][ LET row0 == df[snap.current_index + 1]
          rpm0 == snap.sim_adjustments.manual_rpm
          anomaly0 == snap.sim_adjustments.manual_anomaly
          temp0 == SimulatedTemp(row0, rpm0)
          do20 == SimulatedDo2(row0, rpm0, anomaly0)
          fires0 == AutoPilotFires(do20, anomaly0)
          rpm1 == IF fires0 THEN AutoPilotRpm(rpm0) ELSE rpm0
          buffer1 == PushBuffer(snap.temp_buffer, temp0)
          health0 == HealthScore(temp0, row0, anomaly0)
          now == [ current_index |-> current_index', batch_count |-> batch_count',
                   temp_buffer |-> temp_buffer', sim_adjustments |-> sim_adjustments' ]
      IN frame.pc # "idle" =>
           /\ shared' # shared => frame'.pc # frame.pc
           /\ frame'.pc \in { "l84", "l88", "l96", "l101", "l105", "l112" } =>
                sim_adjustments' = snap.sim_adjustments
           /\ sim_adjustments'.manual_anomaly = anomaly0
           /\ frame'.pc = "idle" =>
                /\ op' = "tick"
                /\ Len(df) = 0 => now = snap /\ resp'.error # ""
                /\ Len(df) > 0 =>
                     /\ current_index' = NextIndex(snap.current_index, Len(df))
                     /\ batch_count' = NextBatchCount(snap.current_index, Len(df),
                                                      snap.batch_count)
                     /\ IF Do2Raises(rpm0, anomaly0)
                        THEN /\ resp' = ServerError
                             /\ temp_buffer' = snap.temp_buffer
                             /\ sim_adjustments' = snap.sim_adjustments
                        ELSE /\ temp_buffer' = buffer1
                             /\ sim_adjustments' =
                                  [snap.sim_adjustments EXCEPT !.manual_rpm = rpm1]
                             /\ resp' = Packet(row0, batch_count', temp0, rpm1, do20,
                                               health0, IsAnomaly(health0, anomaly0),
                                               fires0, PredictedTemp(buffer1)) ]_vars

C7_Witness ==
  /\ frame.pc = "l112"
  /\ \E i \in 1..Len(pending) : pending[i].kind = "control" /\ pending[i].data.num = 700
  /\ nok = 1

\* C10: the health score of every successful tick lies in [0, 100].
C10_HealthRange == Served => (resp.health_score >= 0 /\ resp.health_score <= 1000)

C10_Witness ==
  /\ Served /\ resp.health_score = 0
  /\ df[1].Temperature = 100000 /\ sim_adjustments.manual_rpm = 1000

\* the row a tick starting in the current state reads
CurrentRow == df[current_index + 1]

\* C11 as stated: while the fault is set every tick reports an anomaly, an
\* oxygenation of exactly Dissolved_Oxygen * 0.05, the auto pilot inactive and
\* manual_rpm unchanged.
C11_FaultTickExact ==
  [][ (IsTick /\ Len(df) > 0 /\ sim_adjustments.manual_anomaly) =>
        /\ resp'.status = "success"
        /\ resp'.is_anomaly
        /\ 2 * resp'.Dissolved_Oxygen = CurrentRow.Dissolved_Oxygen
        /\ ~resp'.auto_pilot_active
        /\ sim_adjustments' = sim_adjustments ]_vars

\* C11 (amended): while the fault is set every tick on a non-empty Source
\* reports an anomaly, an oxygenation of Dissolved_Oxygen * 0.05 rounded to two
\* decimals whatever the speed, the auto pilot inactive and manual_rpm unchanged.
C11_FaultTick ==
  [][ (IsTick /\ Len(df) > 0 /\ sim_adjustments.manual_anomaly) =>
        /\ resp'.status = "success"
        /\ resp'.is_anomaly
        /\ 2 * resp'.Dissolved_Oxygen - CurrentRow.Dissolved_Oxygen \in { -1, 0, 1 }
        /\ ~resp'.auto_pilot_active
        /\ sim_adjustments' = sim_adjustments ]_vars

C11_Witness ==
  /\ Served /\ sim_adjustments.manual_anomaly /\ sim_adjustments.manual_rpm = 700
  /\ df[row_index + 1].Dissolved_Oxygen = 281 /\ resp.Dissolved_Oxygen = 140
  /\ resp.is_anomaly /\ ~resp.auto_pilot_active

\* C12: the first and every later tick after a resetFault() that followed a
\* triggerFault(), with no new fault, computes its health score as
\* clamp(100 - 15 |simTemp - 37| - 40 |pH - 7|, 0, 100) with no fault penalty
\* (the packet reports it to one decimal), its oxygenation with the agitation
\* factor (the value nearest to sqrt(rpm / 300) * Dissolved_Oxygen), and an
\* anomaly exactly when that score is below 70.
C12_AfterReset ==
  [][ (IsTick /\ fault_state = "cleared" /\ resp'.status = "success") =>
        LET raw == 100000 - 150 * (IF resp'.Temperature >= 3700
                                   THEN resp'.Temperature - 3700
                                   ELSE 3700 - resp'.Temperature)
                          - 40 * (IF CurrentRow.pH >= 7000
                                  THEN CurrentRow.pH - 7000 ELSE 7000 - CurrentRow.pH)
            score == IF raw < 0 THEN 0 ELSE IF raw > 100000 THEN 100000 ELSE raw
            n == resp'.Dissolved_Oxygen
            x == 4 * sim_adjustments.manual_rpm
                   * CurrentRow.Dissolved_Oxygen * CurrentRow.Dissolved_Oxygen
        IN /\ 100 * resp'.health_score - score \in -50..50
           /\ resp'.is_anomaly <=> score < 70000
           /\ n >= 0
           /\ n > 0 => 3 * (2 * n - 1) * (2 * n - 1) <= x
           /\ x < 3 * (2 * n + 1) * (2 * n + 1) ]_vars

C12_Witness ==
  /\ Served /\ fault_state = "cleared" /\ nok = 2
  /\ df[row_index + 1].Temperature = 37004
  /\ resp.health_score = 980 /\ ~resp.is_anomaly /\ resp.Dissolved_Oxygen = 2810

\* set-speed bodies without a usable number
IsDigitChar(c) == c \in { "0", "1", "2", "3", "4", "5", "6", "7", "8", "9" }
NonNumeric(d) ==
  /\ d.has
  /\ \/ d.kind = "null"
     \/ d.kind = "string" /\ (d.str = <<>> \/ \E i \in 1..Len(d.str) : ~IsDigitChar(d.str[i]))
Rejected(r) == r.http # 200 /\ r.new_rpm = <<>>

Rounds(n, x, d) == 2 * (d * n - x) \in (0 - d)..d
\* n is the integer nearest to sqrt(rpm / 300) * 10 * oxygen
Agitated(n, rpm, oxygen) ==
  /\ n >= 0
  /\ n > 0 => 3 * (2 * n - 1) * (2 * n - 1) <= 4 * rpm * oxygen * oxygen
  /\ 4 * rpm * oxygen * oxygen < 3 * (2 * n + 1) * (2 * n + 1)

\* C14: setSpeed(v) with any number v, negative, zero or above 600 included,
\* sets manual_rpm to exactly v and acknowledges v; the tick that follows
\* couples temperature and oxygenation to v.
C14_SetSpeedExact ==
  [][ /\ \A d \in Bodies :
           (d.has /\ d.kind = "number" /\ UpdateSimulation(d)) =>
             /\ sim_adjustments' = [sim_adjustments EXCEPT !.manual_rpm = d.num]
             /\ resp'.new_rpm = << d.num >> /\ resp'.http = 200
      /\ (IsTick /\ op = "control" /\ resp.new_rpm # <<>> /\ resp'.status = "success") =>
           LET v == resp.new_rpm[1]
           IN /\ Rounds(resp'.Temperature, CurrentRow.Temperature + v - 300, 10)
              /\ IF sim_adjustments.manual_anomaly
                 THEN Rounds(resp'.Dissolved_Oxygen, CurrentRow.Dissolved_Oxygen, 2)
                 ELSE Agitated(resp'.Dissolved_Oxygen, v, CurrentRow.Dissolved_Oxygen) ]_vars

C14_Witness ==
  /\ Served /\ nok = 1 /\ ncmds >= 1
  /\ resp.Temperature = 3740 /\ resp.Dissolved_Oxygen = 4583
  /\ resp.Impeller_Speed = 7000 /\ sim_adjustments.manual_rpm = 700

\* C15 as stated: at manual_rpm 300 with no fault the tick returns the row's
\* own Temperature and Dissolved_Oxygen, and for the base row (37.0, 7.0, 30)
\* a health score of 100, no anomaly, and manual_rpm still 300.
BaseRow == [Temperature |-> 37000, pH |-> 7000, Dissolved_Oxygen |-> 300]
AtDefaults == sim_adjustments = [manual_rpm |-> 300, manual_anomaly |-> FALSE]
BaseRowResult ==
  CurrentRow = BaseRow =>
    /\ resp'.Temperature = 3700 /\ resp'.Dissolved_Oxygen = 3000
    /\ resp'.health_score = 1000 /\ ~resp'.is_anomaly
    /\ ~resp'.auto_pilot_active /\ sim_adjustments'.manual_rpm = 300

C15_IdentityExact ==
  [][ (IsTick /\ AtDefaults /\ Len(df) > 0) =>
        /\ resp'.status = "success"
        /\ 10 * resp'.Temperature = CurrentRow.Temperature
        /\ resp'.Dissolved_Oxygen = 10 * CurrentRow.Dissolved_Oxygen
        /\ BaseRowResult ]_vars

\* C15 (amended): at manual_rpm 300 with no fault the tick returns the row's
\* Temperature and Dissolved_Oxygen rounded to two decimals, and for the base
\* row a health score of 100, no anomaly, and manual_rpm still 300.
C15_IdentityRounded ==
  [][ (IsTick /\ AtDefaults /\ Len(df) > 0) =>
        /\ resp'.status = "success"
        /\ Rounds(resp'.Temperature, CurrentRow.Temperature, 10)
        /\ resp'.Dissolved_Oxygen = 10 * CurrentRow.Dissolved_Oxygen
        /\ BaseRowResult ]_vars

C15_Witness ==
  /\ Served /\ df[row_index + 1] = BaseRow
  /\ resp.Temperature = 3700 /\ resp.Dissolved_Oxygen = 3000
  /\ resp.health_score = 1000 /\ ~resp.is_anomaly /\ ~resp.auto_pilot_active
  /\ sim_adjustments = [manual_rpm |-> 300, manual_anomaly |-> FALSE]

\* C16: a tick on a non-empty Source either returns a success packet having
\* advanced the cursor and appended to the twin buffer, or fails and leaves the
\* cursor, the batch count, the twin buffer and the control state unchanged.
C16_AllOrNothing ==
  [][ (IsTick /\ Len(df) > 0) =>
        IF resp'.status = "success"
        THEN /\ current_index' = (current_index + 1) % Len(df)
             /\ Len(temp_buffer') >= 1
             /\ temp_buffer'[Len(temp_buffer')] = resp'.Temperature
        ELSE UNCHANGED <<current_index, batch_count, temp_buffer, sim_adjustments>> ]_vars

\* The specified order of a tick: coupling, twin, evaluator, auto pilot, each
\* reading the control state as it is when its turn comes.
SpecOrder(row, ctl, buf) ==
  LET temp == SimulatedTemp(row, ctl.manual_rpm)
      do2 == SimulatedDo2(row, ctl.manual_rpm, ctl.manual_anomaly)
      buf1 == PushBuffer(buf, temp)
      pred == PredictedTemp(buf1)
      health == HealthScore(temp, row, ctl.manual_anomaly)
      anomalous == IsAnomaly(health, ctl.manual_anomaly)
      fires == AutoPilotFires(do2, ctl.manual_anomaly)
      ctl1 == IF fires THEN [ctl EXCEPT !.manual_rpm = AutoPilotRpm(ctl.manual_rpm)] ELSE ctl
  IN [ Temperature |-> temp, Dissolved_Oxygen |-> do2, digital_twin_temp |-> pred,
       health_score |-> RoundDiv(health, 100), is_anomaly |-> anomalous,
       auto_pilot_active |-> fires, sim_adjustments |-> ctl1, temp_buffer |-> buf1 ]

\* C17: the packet's temperature, oxygenation, prediction, health score and
\* anomaly flag are those computed from the control state the tick began with,
\* and the code's order of steps ends in the same values and the same state as
\* the specified order.
C17_OrderEquivalent ==
  [][ (frame.pc = "l141" /\ frame'.pc = "idle") =>
        LET want == SpecOrder(df[snap.current_index + 1], snap.sim_adjustments,
                              snap.temp_buffer)
        IN /\ resp'.Temperature = want.Temperature
           /\ resp'.Dissolved_Oxygen = want.Dissolved_Oxygen
           /\ resp'.digital_twin_temp = want.digital_twin_temp
           /\ resp'.health_score = want.health_score
           /\ resp'.is_anomaly = want.is_anomaly
           /\ resp'.auto_pilot_active = want.auto_pilot_active
           /\ sim_adjustments' = want.sim_adjustments
           /\ temp_buffer' = want.temp_buffer ]_vars

C17_Witness ==
  /\ Served /\ frame.pc = "idle" /\ resp.auto_pilot_active
  /\ df[row_index + 1].Temperature = 37004 /\ resp.Temperature = 3700
  /\ sim_adjustments.manual_rpm = 305 /\ resp.health_score = 980

\* C18: the twin buffer holds the simulated temperatures of the last min(k, 5)
\* successful ticks, oldest first: it starts empty, a successful tick appends
\* its temperature and drops the oldest beyond five, and nothing else touches
\* it; with five samples the tick's prediction is last + 2 * (last - first) / 4
\* rounded to two decimals.
LastFive(q) == IF Len(q) > 5 THEN SubSeq(q, Len(q) - 4, Len(q)) ELSE q

C18_TwinWindow ==
  /\ temp_buffer = <<>>
  /\ [][ IF IsTick /\ resp'.status = "success"
         THEN /\ temp_buffer' = LastFive(temp_buffer \o << resp'.Temperature >>)
              /\ Len(temp_buffer') = (IF nok' < 5 THEN nok' ELSE 5)
              /\ IF Len(temp_buffer') = 5
                 THEN /\ Len(resp'.digital_twin_temp) = 1
                      /\ Rounds(resp'.digital_twin_temp[1],
                                3 * temp_buffer'[5] - temp_buffer'[1], 2)
                 ELSE resp'.digital_twin_temp = <<>>
         ELSE temp_buffer' = temp_buffer ]_vars

C18_Witness ==
  /\ Served /\ nok = 6 /\ Len(temp_buffer) = 5 /\ batch_count > 2 /\ ncmds > 0
  /\ temp_buffer[1] # temp_buffer[5] /\ resp.digital_twin_temp # << temp_buffer[5] >>

\* C19: set-speed changes nothing but manual_rpm, trigger and reset nothing but
\* manual_anomaly; none of them moves the cursor, the batch count or the twin
\* buffer, and once the twin buffer holds a sample no request empties it.
C19_ControlFrame ==
  [][ /\ op' = "control" /\ ncmds' # ncmds =>
           /\ sim_adjustments'.manual_anomaly = sim_adjustments.manual_anomaly
           /\ UNCHANGED <<df, current_index, batch_count, temp_buffer>>
      /\ op' \in { "trigger", "reset" } /\ ncmds' # ncmds =>
           /\ sim_adjustments'.manual_rpm = sim_adjustments.manual_rpm
           /\ sim_adjustments'.manual_anomaly = (op' = "trigger")
           /\ UNCHANGED <<df, current_index, batch_count, temp_buffer>>
      /\ temp_buffer # <<>> => temp_buffer' # <<>> ]_vars

C19_Witness ==
  /\ op = "trigger" /\ ncmds = 2 /\ sim_adjustments = [manual_rpm |-> 0, manual_anomaly |-> TRUE]
  /\ Len(temp_buffer) = 5 /\ current_index = 1 /\ batch_count = 3

\* C20: when no set-speed is ever sent, manual_rpm stays in 300..600 on the
\* grid 300 + 5j, every step leaves it alone or adds exactly 5, so it never
\* decreases and changes at most 60 times: any run of ticks ends with it fixed.
C20_Ratchet ==
  /\ sim_adjustments.manual_rpm = 300
  /\ [][ /\ sim_adjustments'.manual_rpm \in 300..600
         /\ (sim_adjustments'.manual_rpm - 300) % 5 = 0
         /\ sim_adjustments'.manual_rpm \in
              { sim_adjustments.manual_rpm, sim_adjustments.manual_rpm + 5 }
         /\ sim_adjustments'.manual_rpm # sim_adjustments.manual_rpm =>
              (IsTick /\ resp'.auto_pilot_active) ]_vars

C20_Witness ==
  /\ Served /\ sim_adjustments.manual_rpm = 600 /\ nok >= 61
  /\ resp.auto_pilot_active /\ resp.Dissolved_Oxygen < 3000 /\ fault_state = "cleared"

====
